---- MODULE Spec2Model ----
(***************************************************************************)
(* Model of the Lucide icon picker field (src/fields/component/index.tsx). *)
(*                                                                         *)
(* One mounted IconSelectField is modelled: the value held by the host     *)
(* form state (useField), the six useState cells of the component, the     *)
(* state of useDebounce (debounced value and pending timers) and the       *)
(* pending "reset page" effect that follows a timer-driven render, the     *)
(* document-level mousedown listener of the instance, and the module-level *)
(* iconCache (shared with every other instance of the page).               *)
(*                                                                         *)
(* Spec is that instance on a host that hands a written value back before  *)
(* the next event.  SpecCache adds the renders and preloads of other        *)
(* instances and the completion of imports; coldCache follows the cache of *)
(* the same run without the preload effect.  SpecLive is the search box    *)
(* with timers and effects that do run.  SpecHost is the field on a host   *)
(* that hands written values back later (inFlight).  SpecTwo is a page of  *)
(* two instances: `other` holds the state of the second one.               *)
(*                                                                         *)
(* Encodings.  A JS string that the code inspects character by character   *)
(* (icon names, search text) is a sequence of one-character strings, so    *)
(* '' is <<>>.  A JS number n is <<n>> and NaN is <<>>.  A configuration   *)
(* object is a function from the set of its own keys to values; an absent  *)
(* host value (undefined) is <<>> and a present one v is <<v>>.            *)
(***************************************************************************)
EXTENDS Integers, Sequences, FiniteSets, TLC

VARIABLES
    mounted,           \* the component is mounted
    hostValue,         \* host form state for `path`: <<>> (undefined) or <<config>>
    setValueCalls,     \* arguments of the setValue calls made by the latest event
    fieldIsFocused,    \* useState, line 130: the picker dialog is open
    search,            \* useState, line 131
    page,              \* useState, line 132
    hoveredIcon,       \* useState, line 133: <<>> (null) or <<name>>
    showConfig,        \* useState, line 134
    showResetConfirm,  \* useState, line 135
    debouncedValue,    \* useDebounce, line 74
    timers,            \* values captured by the pending setTimeout callbacks
    pc,                \* "idle", or "effect": the reset-page effect of the last commit is pending
    iconCache,         \* line 103, for the names of CacheNames: <<>> (no entry) or <<handle>>
    loaderCalls,       \* per name, the number of times its import function was invoked
    listeners,         \* number of mousedown listeners this instance has on document
    coldCache,         \* iconCache of the same run of a build without the preload effect of lines 166-175
    other,             \* the per-instance state of the second IconSelectField of the page
    focus,             \* which of the two instances (1 or 2, in document order) the variables above hold
    inFlight           \* setValue arguments the host has taken and not yet handed back through useField

vars == <<mounted, hostValue, setValueCalls, fieldIsFocused, search, page,
          hoveredIcon, showConfig, showResetConfirm, debouncedValue, timers, pc,
          iconCache, loaderCalls, listeners, inFlight, coldCache, other, focus>>

(***************************************************************************)
(* Bounds of the model.                                                    *)
(***************************************************************************)
\* number of generated registry keys (on top of the keys the component names)
NumGenerated == 169
\* most dynamic(...) calls followed per name, most listeners followed
MaxDynamicCalls == 2
MaxListeners == 2
\* writes the host holds back at a time
MaxInFlight == 2

(***************************************************************************)
(* Characters and strings.                                                 *)
(***************************************************************************)
Lower == <<"a","b","c","d","e","f","g","h","i","j","k","l","m",
           "n","o","p","q","r","s","t","u","v","w","x","y","z">>
Upper == <<"A","B","C","D","E","F","G","H","I","J","K","L","M",
           "N","O","P","Q","R","S","T","U","V","W","X","Y","Z">>

IndexIn(seq, c) == CHOOSE i \in 1..Len(seq) : seq[i] = c
IsIn(seq, c) == \E i \in 1..Len(seq) : seq[i] = c

Digits == <<"0","1","2","3","4","5","6","7","8","9">>

\* UTF-16 code unit of a character (the characters the model uses)
CharCode(c) ==
    IF c = "-" THEN 45
    ELSE IF IsIn(Digits, c) THEN 47 + IndexIn(Digits, c)
    ELSE IF IsIn(Upper, c) THEN 64 + IndexIn(Upper, c)
    ELSE 96 + IndexIn(Lower, c)

\* String.prototype.toLowerCase
toLowerCase(s) ==
    [i \in 1..Len(s) |-> IF IsIn(Upper, s[i]) THEN Lower[IndexIn(Upper, s[i])] ELSE s[i]]

\* String.prototype.includes
includes(hay, needle) ==
    \E i \in 0..(Len(hay) - Len(needle)) : SubSeq(hay, i + 1, i + Len(needle)) = needle

\* the order Array.prototype.sort uses without a comparator: by code units,
\* a proper prefix first
RECURSIVE StrLess(_, _)
StrLess(a, b) ==
    IF a = <<>> THEN b # <<>>
    ELSE IF b = <<>> THEN FALSE
    ELSE IF CharCode(Head(a)) # CharCode(Head(b)) THEN CharCode(Head(a)) < CharCode(Head(b))
    ELSE StrLess(Tail(a), Tail(b))

Min(a, b) == IF a < b THEN a ELSE b
Max(a, b) == IF a > b THEN a ELSE b

(***************************************************************************)
(* JS numbers and the parsers of the two numeric inputs.                   *)
(***************************************************************************)
Num(n) == <<n>>
NaN == <<>>

\* value of the longest prefix of decimal digits of s, as <<count, value>>
RECURSIVE DigitPrefix(_, _, _)
DigitPrefix(s, count, acc) ==
    IF s # <<>> /\ IsIn(Digits, Head(s))
    THEN DigitPrefix(Tail(s), count + 1, 10 * acc + (IndexIn(Digits, Head(s)) - 1))
    ELSE <<count, acc>>

\* (variant: text without a digit gives the default size)
parseInt_FallsBack(text) ==
    LET neg  == text # <<>> /\ Head(text) = "-"
        body == IF neg THEN Tail(text) ELSE text
        dp   == DigitPrefix(body, 0, 0)
    IN  IF dp[1] = 0 THEN Num(24) ELSE Num(IF neg THEN 0 - dp[2] ELSE dp[2])
\* parseInt(text, 10): optional sign, then decimal digits; NaN without a digit
parseInt(text) ==
    LET neg  == text # <<>> /\ Head(text) = "-"
        body == IF neg THEN Tail(text) ELSE text
        dp   == DigitPrefix(body, 0, 0)
    IN  IF dp[1] = 0 THEN NaN ELSE Num(IF neg THEN 0 - dp[2] ELSE dp[2])

\* parseFloat(text), on texts without a fraction or an exponent part (the
\* texts the model enters): the signed decimal prefix, NaN without a digit
parseFloat(text) ==
    LET neg  == text # <<>> /\ Head(text) = "-"
        body == IF neg THEN Tail(text) ELSE text
        dp   == DigitPrefix(body, 0, 0)
    IN  IF dp[1] = 0 THEN NaN ELSE Num(IF neg THEN 0 - dp[2] ELSE dp[2])

(***************************************************************************)
(* The icon registry (lucide-react/dynamicIconImports) and the catalog.    *)
(***************************************************************************)
Abc == <<"a","b","c">>

\* the k-th generated key: a, b, c, aa, ab, ac, ba, ...
RECURSIVE GenName(_)
GenName(k) ==
    IF k < 3 THEN <<Abc[k + 1]>>
    ELSE GenName((k \div 3) - 1) \o <<Abc[(k % 3) + 1]>>

\* keys the component itself names (preload list and fixed <Icon name=...>)
NamedKeys ==
    << <<"x">>, <<"u","s","e","r">>, <<"h","o","m","e">>,
       <<"s","e","t","t","i","n","g","s">>, <<"s","e","a","r","c","h">>,
       <<"c","h","e","c","k">>, <<"p","a","l","e","t","t","e">>,
       <<"r","o","t","a","t","e","-","c","c","w">>,
       <<"c","h","e","v","r","o","n","-","l","e","f","t">>,
       <<"c","h","e","v","r","o","n","-","r","i","g","h","t">>,
       <<"A","b">> >>

\* Object.keys(dynamicIconImports), in the object's own key order
dynamicIconImports == NamedKeys \o [k \in 1..NumGenerated |-> GenName(k - 1)]

\* line 141: Object.keys(dynamicIconImports).sort()
allIcons == SortSeq(dynamicIconImports, StrLess)

\* line 118
ICONS_PER_PAGE == 60

(***************************************************************************)
(* Inputs of the model.                                                    *)
(***************************************************************************)
Home     == <<"h","o","m","e">>
Ab       == <<"a","b">>
Settings == <<"s","e","t","t","i","n","g","s">>
X        == <<"x">>
Ghost    == <<"g","h","o","s","t">>        \* not a key of the registry

SearchTexts == { <<>>, <<"h">>, <<"A","b">>, <<"z","z">> }
ClickNames  == { <<"a","b">>, <<"h","o","m","e">> }
HoverNames  == { <<"a","b">> }
SizeChoices == { 24 }                     \* among PREDEFINED_SIZES, line 10
StrokeChoices == { 2 }                    \* among PREDEFINED_STROKE_WIDTHS, line 11
ColorChoices == { "currentColor", "#ef4444" }   \* among COLOR_PALETTE, line 20
SizeTexts   == { <<"5","0","0">>, <<>> }  \* e.target.value of #icon-size (max is 100)
StrokeTexts == { <<"2">>, <<>> }          \* e.target.value of #icon-stroke-width
ColorTexts  == { "#ef4444" }              \* e.target.value of #icon-color

(***************************************************************************)
(* The persisted configuration.                                            *)
(***************************************************************************)
Fields == {"name", "size", "color", "strokeWidth", "absoluteStrokeWidth"}

\* lines 64-70
DEFAULT_ICON_CONFIG ==
    [name |-> <<>>, size |-> Num(24), color |-> "currentColor",
     strokeWidth |-> Num(2), absoluteStrokeWidth |-> FALSE]

StoredConfig ==
    [name |-> <<"h","o","m","e">>, size |-> Num(500), color |-> "#ef4444",
     strokeWidth |-> Num(2), absoluteStrokeWidth |-> TRUE]

InitialHostValues == { <<>>, <<StoredConfig>> }

\* (variant: the spread of the base object is missing)
Spread_OverOnly(base, over) == over
\* object spread { ...base, ...over }
Spread(base, over) ==
    [k \in (DOMAIN base) \cup (DOMAIN over) |-> IF k \in DOMAIN over THEN over[k] ELSE base[k]]

\* line 128: const { value = DEFAULT_ICON_CONFIG } = useField(...)
useField(hv) == IF hv = <<>> THEN DEFAULT_ICON_CONFIG ELSE hv[1]
value == useField(hostValue)

\* The three writers, as the sequence of arguments they pass to setValue.
\* (variant: the name is merged into the defaults, not into the current value)
handleIconSelect_OntoDefaults(v, iconName) ==
    << [name |-> iconName, size |-> Num(24), color |-> "currentColor",
        strokeWidth |-> Num(2), absoluteStrokeWidth |-> FALSE] >>
\* lines 183-187
handleIconSelect(v, iconName) == << Spread(v, [name |-> iconName]) >>
\* (variant: `field: newValue` instead of the computed key `[field]: newValue`)
handleConfigChange_LiteralKey(v, field, newValue) ==
    << [k \in (DOMAIN v) \cup {"field"} |-> IF k = "field" THEN newValue ELSE v[k]] >>
\* (variant: the handler returns without calling setValue)
handleConfigChange_NoCall(v, field, newValue) == << >>
\* lines 193-198
handleConfigChange(v, field, newValue) == << Spread(v, (field :> newValue)) >>
\* (variant: the selected icon is not preserved)
handleResetToDefaults_DropsName(v) ==
    << [name |-> <<>>, size |-> Num(24), color |-> "currentColor",
        strokeWidth |-> Num(2), absoluteStrokeWidth |-> FALSE] >>
\* lines 225-229
handleResetToDefaults(v) == << Spread(DEFAULT_ICON_CONFIG, [name |-> v.name]) >>

\* the host stores the argument of the last setValue call
setValue(hv, calls) == IF calls = <<>> THEN hv ELSE <<calls[Len(calls)]>>

(***************************************************************************)
(* Search, filtering and pagination.                                       *)
(***************************************************************************)
\* (variant: the search text is not lower-cased)
FilterIcons_CaseSensitive(icons, debouncedSearch) ==
    IF debouncedSearch = <<>> THEN icons
    ELSE LET matches(name) == includes(toLowerCase(name), debouncedSearch)
         IN  SelectSeq(icons, matches)
\* lines 147-153 (the value the useMemo callback computes)
FilterIcons(icons, debouncedSearch) ==
    IF debouncedSearch = <<>> THEN icons
    ELSE LET matches(name) == includes(toLowerCase(name), toLowerCase(debouncedSearch))
         IN  SelectSeq(icons, matches)

\* useMemo keyed by debouncedSearch: one value per search text
filteredIconsMemo == [s \in SearchTexts |-> FilterIcons(allIcons, s)]
filteredIcons == filteredIconsMemo[debouncedValue]

\* Math.ceil(n / d) for n >= 0, d > 0
MathCeilDiv(n, d) == IF n % d = 0 THEN n \div d ELSE (n \div d) + 1

\* line 155
TotalPagesOf(icons) == MathCeilDiv(Len(icons), ICONS_PER_PAGE)
totalPages == TotalPagesOf(filteredIcons)

\* Array.prototype.slice(start, end) for 0 <= start <= end
slice(arr, start, end) == SubSeq(arr, Min(start, Len(arr)) + 1, Min(end, Len(arr)))

\* (variant: pages overlap by one entry)
PaginatedOf_Overlap(icons, p) ==
    slice(icons, p * (ICONS_PER_PAGE - 1), p * (ICONS_PER_PAGE - 1) + ICONS_PER_PAGE)
\* lines 158-163
PaginatedOf(icons, p) == slice(icons, p * ICONS_PER_PAGE, (p + 1) * ICONS_PER_PAGE)

\* useMemo keyed by [filteredIcons, page]: one value per search text and page
\* (a page index never exceeds the page count of the whole catalog)
paginatedIconsMemo ==
    [s \in SearchTexts |->
       [p \in 0..TotalPagesOf(allIcons) |-> PaginatedOf(filteredIconsMemo[s], p)]]
paginatedIcons == paginatedIconsMemo[debouncedValue][page]

Range(seq) == { seq[i] : i \in 1..Len(seq) }

\* the names among those the model points at that each page shows
gridNamesMemo ==
    [s \in SearchTexts |->
       [p \in 0..TotalPagesOf(allIcons) |->
          Range(paginatedIconsMemo[s][p]) \cap (ClickNames \cup HoverNames)]]

\* line 837: the icon grid renders a button for the name n
GridShows(n) == n \in gridNamesMemo[debouncedValue][page]

\* updater of the Previous button, line 924
prevPageUpdater(p) == Max(0, p - 1)
\* (variant: no upper clamp)
nextPageUpdater_NoClamp(p, tp) == p + 1
\* updater of the Next button, line 958
nextPageUpdater(p, tp) == Min(tp - 1, p + 1)

(***************************************************************************)
(* useDebounce, lines 73-87.                                               *)
(***************************************************************************)
\* (variant: the effect has no cleanup)
clearTimeout_Missing(ts, oldValue) == ts
\* cleanup of the effect that was run for `oldValue`: clearTimeout(timer)
clearTimeout(ts, oldValue) == ts \ {oldValue}
\* (variant: the effect schedules nothing)
setTimeout_Never(ts, newValue) == ts
\* the effect run for `newValue`: setTimeout(() => setDebouncedValue(newValue))
setTimeout(ts, newValue) == ts \cup {newValue}

\* timers after a render in which `value` went from old to new: the effect
\* has dependencies [value, delay], so nothing happens when value is the same
DebounceEffect(ts, old, new) ==
    IF old = new THEN ts ELSE setTimeout(clearTimeout(ts, old), new)

(***************************************************************************)
(* The resolution cache: iconCache, Icon and the preload effect.           *)
(***************************************************************************)
\* the names whose cache entries the model follows: one the preload list
\* names and every render shows, one the preload list names and the dialogs
\* show, one the preload list does not name, one that is not in the registry
CacheNames == { Settings, X, Ab, Ghost }

\* `name in dynamicIconImports`, for the followed names
registered == [n \in CacheNames |-> IsIn(dynamicIconImports, n)]

\* line 168, and line 169: .filter(name => name in dynamicIconImports)
popularIcons == << <<"c","h","e","c","k">>, X, <<"u","s","e","r">>,
                   Settings, Home, <<"s","e","a","r","c","h">> >>
preloadNames == { n \in Range(popularIcons) : IsIn(dynamicIconImports, n) }

\* next/dynamic: dynamic(loader) returns a new lazy component, which invokes
\* the loader when it is first rendered.  The components made for one name
\* are told apart by their ordinal: the k-th dynamic(...) call for the name
\* returns the component with id k.
dynamic(ordinal) == [id |-> ordinal, load |-> "idle"]

\* the number of dynamic(...) calls made for a name whose entry is `entry`
\* (each call's result is stored in the cache at once, lines 107 and 171)
DynamicCallsOf(entry) == IF entry = <<>> THEN 0 ELSE entry[1].id
dynamicCalls(n) == DynamicCallsOf(iconCache[n])

\* iconCache[name] = dynamic(dynamicIconImports[name])
Store(entry) == << dynamic(DynamicCallsOf(entry) + 1) >>

\* <LucideIcon/>: the lazy component h is rendered; one that was not
\* rendered before invokes its loader (a name outside the registry has none)
RenderLazy(h, name) ==
    IF h.load = "idle" /\ registered[name] THEN [h EXCEPT !.load = "pending"] ELSE h

\* (variant: the entry is made without looking at the cache)
IconCacheMiss_Always(entry) == TRUE
\* line 106: !iconCache[name]
IconCacheMiss(entry) == entry = <<>>

\* (variant: the preload overwrites the entries it finds)
PreloadCacheMiss_Always(entry) == TRUE
\* line 170: !iconCache[name]
PreloadCacheMiss(entry) == entry = <<>>

\* lines 105-113, the body of Icon for `name`, on the cache entry of the
\* name: the entry is made when the cache has none (lines 106-108), then the
\* cached component is rendered (lines 110-112)
Icon(entry, name) ==
    IF IconCacheMiss(entry)
    THEN << RenderLazy(Store(entry)[1], name) >>
    ELSE << RenderLazy(entry[1], name) >>

\* lines 170-172, the preload of one name: the entry is made, not rendered
Preload(entry) == IF PreloadCacheMiss(entry) THEN Store(entry) ELSE entry

\* a loader was invoked between the entries `before` and `after` of a name:
\* the cached component is a loading one and was not there before
StartsLoad(before, after) ==
    /\ after # <<>>
    /\ after[1].load = "pending"
    /\ before # after

\* the followed names among those each page of the grid shows
gridIconsMemo ==
    [s \in SearchTexts |->
       [p \in 0..TotalPagesOf(allIcons) |->
          Range(paginatedIconsMemo[s][p]) \cap CacheNames]]

\* line 271: value.name ? <Icon name={value.name}/> : <span>Icon</span>
ControlRendersIcon == value.name # <<>>

\* the followed names among those of the <Icon> elements with a fixed name:
\* line 335; lines 373, 474, 605; line 674; line 794; lines 943, 978
alwaysIcons  == CacheNames \cap { Settings }
configIcons  == CacheNames \cap { X, <<"p","a","l","e","t","t","e">>,
                                  <<"r","o","t","a","t","e","-","c","c","w">> }
confirmIcons == CacheNames \cap { X }
dialogIcons  == CacheNames \cap { X }
navIcons     == CacheNames \cap { <<"c","h","e","v","r","o","n","-","l","e","f","t">>,
                                  <<"c","h","e","v","r","o","n","-","r","i","g","h","t">> }

\* the followed names for which the render of the current state has an
\* <Icon>: lines 272, 335, 373, 474, 605, 674, 794, 878, 943, 978
RenderedIcons ==
    IF ~mounted THEN {}
    ELSE (IF ControlRendersIcon THEN {value.name} \cap CacheNames ELSE {})
         \cup alwaysIcons
         \cup (IF showConfig THEN configIcons ELSE {})
         \cup (IF showResetConfirm THEN confirmIcons ELSE {})
         \cup (IF fieldIsFocused
               THEN dialogIcons \cup gridIconsMemo[debouncedValue][page]
                    \cup (IF totalPages > 1 THEN navIcons ELSE {})
               ELSE {})

\* the cache after the Icon of every name in `shown` ran
AfterIcons(shown) ==
    [n \in CacheNames |-> IF n \in shown THEN Icon(iconCache[n], n) ELSE iconCache[n]]

\* the same Icons, run on the cache of the build without the preload effect
ColdAfterIcons(shown) ==
    [n \in CacheNames |-> IF n \in shown THEN Icon(coldCache[n], n) ELSE coldCache[n]]

\* (variant: the effect makes an entry for every name, registered or not)
AfterPreload_EveryName(c) == [n \in CacheNames |-> Preload(c[n])]
\* ... and after the preload effect of lines 166-175 ran on the cache c
AfterPreload(c) ==
    [n \in CacheNames |-> IF n \in preloadNames THEN Preload(c[n]) ELSE c[n]]

\* the loader calls, counted: `rendered` is the cache after the Icons ran
CountLoads(rendered) ==
    /\ loaderCalls' = [n \in CacheNames |->
                         loaderCalls[n] + (IF StartsLoad(iconCache[n], rendered[n]) THEN 1 ELSE 0)]
    /\ \A n \in CacheNames : DynamicCallsOf(iconCache'[n]) <= MaxDynamicCalls

(***************************************************************************)
(* The click-outside effect, lines 200-222.                                *)
(***************************************************************************)
\* (variant: the dialog and the collapsed control carry the class names the
\* effect looks for)
ClassNamesOf_Marked(configShown, pickerOpen) ==
    { "w-full", "field-type", "text", "field-label", "required",
      "icon-select-field" }
      \cup (IF configShown
            THEN {"icon-config-panel__reset", "icon-config-panel__confirm"}
            ELSE {})
      \cup (IF pickerOpen THEN {"icon-picker-modal"} ELSE {})
\* the class names an instance puts on its elements: lines 234, 235, 237,
\* 590 and 610
ClassNamesOf(configShown, pickerOpen) ==
    { "w-full", "field-type", "text", "field-label", "required" }
      \cup (IF configShown
            THEN {"icon-config-panel__reset", "icon-config-panel__confirm"}
            ELSE {})

\* ... and those of this instance
RenderedClassNames == ClassNamesOf(showConfig, fieldIsFocused)

\* document.querySelector('.' + cls) finds an element
querySelector(cls) == mounted /\ cls \in RenderedClassNames

\* where a pointer can go down
Targets == { "dialog", "control", "outside" }

\* modalElement.contains(target), fieldElement.contains(target)
ModalContains(target) == target = "dialog"
FieldContains(target) == target = "control"

\* lines 206-211: the condition under which handleClickOutside closes
ClickOutsideCloses(target) ==
    /\ fieldIsFocused
    /\ querySelector("icon-picker-modal")
    /\ querySelector("icon-select-field")
    /\ ~ModalContains(target)
    /\ ~FieldContains(target)

\* (variant: the cleanup does not remove the listener)
removeEventListener_Missing(ls) == ls
\* line 220: document.removeEventListener('mousedown', handleClickOutside)
removeEventListener(ls) == Max(0, ls - 1)
\* line 218: document.addEventListener('mousedown', handleClickOutside)
addEventListener(ls) == ls + 1

\* the effect has dependencies [fieldIsFocused]: when the flag changed, the
\* cleanup of the last run removes its listener and the new run adds one
ListenerEffect(ls, old, new) ==
    IF old = new THEN ls ELSE addEventListener(removeEventListener(ls))

\* the per-instance state of an instance that is not mounted
FreshInstance ==
    [mounted |-> FALSE, hostValue |-> <<>>, setValueCalls |-> <<>>,
     fieldIsFocused |-> FALSE, search |-> <<>>, page |-> 0, hoveredIcon |-> <<>>,
     showConfig |-> FALSE, showResetConfirm |-> FALSE, debouncedValue |-> <<>>,
     timers |-> {}, pc |-> "idle", listeners |-> 0, inFlight |-> <<>>]

\* the render that follows an event of this instance, and its effects
RenderThis ==
    /\ listeners' = ListenerEffect(listeners, fieldIsFocused, fieldIsFocused')
    /\ listeners' <= MaxListeners
    /\ iconCache' = AfterIcons(RenderedIcons')
    /\ CountLoads(iconCache')
    /\ coldCache' = ColdAfterIcons(RenderedIcons')

\* the render that follows an event delivered to this instance alone: the
\* useState cells of the other instance are its own
Render ==
    /\ RenderThis
    /\ UNCHANGED <<other, focus>>

(***************************************************************************)
(* Initial state: nothing mounted; the host holds no value or a stored one.*)
(***************************************************************************)
Init ==
    /\ mounted = FALSE
    /\ hostValue \in InitialHostValues
    /\ setValueCalls = <<>>
    /\ fieldIsFocused = FALSE
    /\ search = <<>>
    /\ page = 0
    /\ hoveredIcon = <<>>
    /\ showConfig = FALSE
    /\ showResetConfirm = FALSE
    /\ debouncedValue = <<>>
    /\ timers = {}
    /\ pc = "idle"
    /\ iconCache = [n \in CacheNames |-> <<>>]
    /\ loaderCalls = [n \in CacheNames |-> 0]
    /\ listeners = 0
    /\ inFlight = <<>>
    /\ other = FreshInstance
    /\ focus = 1
    /\ coldCache = [n \in CacheNames |-> <<>>]

\* an event handler can run: mounted, and no effect of the last commit
\* pending (React runs the pending effects of a commit before it processes
\* the updates of a later event, so no event is handled in between)
Ready == mounted /\ pc = "idle"

\* the host is not written
NoWrite == /\ setValueCalls' = <<>>
           /\ hostValue' = hostValue
           /\ inFlight' = inFlight

\* the host is written with the arguments `calls`
Write(calls) == /\ setValueCalls' = calls
                /\ hostValue' = setValue(hostValue, calls)
                /\ inFlight' = inFlight

\* setSearch(s) and the useDebounce effect of the render that follows
SetSearchTo(s) == /\ search' = s
                  /\ timers' = DebounceEffect(timers, search, s)

\* first render and its effects: useState initial values, the debounce
\* effect schedules a timer for the initial search text, the preload effect
\* fills the cache, setPage(0) is a no-op, the click-outside effect adds its
\* listener
Mount ==
    /\ ~mounted
    /\ mounted' = TRUE
    /\ timers' = setTimeout(timers, search)
    /\ NoWrite
    /\ UNCHANGED <<fieldIsFocused, search, page, hoveredIcon, showConfig,
                   showResetConfirm, debouncedValue, pc>>
    /\ listeners' = addEventListener(listeners)
    /\ listeners' <= MaxListeners
    /\ iconCache' = AfterPreload(AfterIcons(RenderedIcons'))
    /\ CountLoads(AfterIcons(RenderedIcons'))
    /\ coldCache' = ColdAfterIcons(RenderedIcons')
    /\ UNCHANGED <<other, focus>>

\* unmount: effect cleanups run (clearTimeout, removeEventListener), the
\* component state is dropped; the module-level cache stays
Unmount ==
    /\ mounted
    /\ mounted' = FALSE
    /\ timers' = clearTimeout(timers, search)
    /\ fieldIsFocused' = FALSE
    /\ search' = <<>>
    /\ page' = 0
    /\ hoveredIcon' = <<>>
    /\ showConfig' = FALSE
    /\ showResetConfirm' = FALSE
    /\ debouncedValue' = <<>>
    /\ pc' = "idle"
    /\ NoWrite
    /\ listeners' = removeEventListener(listeners)
    /\ UNCHANGED <<iconCache, loaderCalls, coldCache, other, focus>>

\* lines 260-268 and 302-307: click or Enter/Space on the collapsed control
OpenPicker ==
    /\ Ready
    /\ fieldIsFocused' = TRUE
    /\ NoWrite
    /\ UNCHANGED <<mounted, search, page, hoveredIcon, showConfig,
                   showResetConfirm, debouncedValue, timers, pc>>
    /\ Render

\* (variant: the close button leaves the search text)
CloseDialog_KeepsSearch ==
    /\ Ready /\ fieldIsFocused
    /\ fieldIsFocused' = FALSE
    /\ NoWrite
    /\ UNCHANGED <<mounted, search, timers, page, hoveredIcon, showConfig,
                   showResetConfirm, debouncedValue, pc>>
    /\ Render
\* lines 787-791: the dialog's close button
CloseDialog ==
    /\ Ready /\ fieldIsFocused
    /\ fieldIsFocused' = FALSE
    /\ SetSearchTo(<<>>)
    /\ NoWrite
    /\ UNCHANGED <<mounted, page, hoveredIcon, showConfig, showResetConfirm,
                   debouncedValue, pc>>
    /\ Render

\* line 806: typing in the search box
SetSearch(s) ==
    /\ Ready /\ fieldIsFocused
    /\ s # search
    /\ SetSearchTo(s)
    /\ NoWrite
    /\ UNCHANGED <<mounted, fieldIsFocused, page, hoveredIcon, showConfig,
                   showResetConfirm, debouncedValue, pc>>
    /\ Render

\* (variant: the effect has an empty dependency list)
ResetPageEffectDue_MountOnly(old, new) == FALSE
\* lines 178-180: the effect re-runs when its dependency debouncedSearch changed
ResetPageEffectDue(old, new) == old # new

\* a pending timer fires: setDebouncedValue(v); when the debounced value
\* changes, the component re-renders and the reset-page effect is pending
TimerFire ==
    /\ Ready
    /\ \E v \in timers :
          /\ timers' = timers \ {v}
          /\ debouncedValue' = v
          /\ pc' = IF ResetPageEffectDue(debouncedValue, v) THEN "effect" ELSE pc
    /\ NoWrite
    /\ UNCHANGED <<mounted, fieldIsFocused, search, page, hoveredIcon,
                   showConfig, showResetConfirm>>
    /\ Render

\* lines 178-180: the effect with dependency [debouncedSearch]
ResetPageEffect ==
    /\ mounted /\ pc = "effect"
    /\ page' = 0
    /\ pc' = "idle"
    /\ NoWrite
    /\ UNCHANGED <<mounted, fieldIsFocused, search, hoveredIcon, showConfig,
                   showResetConfirm, debouncedValue, timers>>
    /\ Render

\* lines 920-926: the Previous button (rendered when totalPages > 1,
\* disabled on page 0)
PrevPage ==
    /\ Ready /\ fieldIsFocused /\ totalPages > 1
    /\ page # 0
    /\ page' = prevPageUpdater(page)
    /\ NoWrite
    /\ UNCHANGED <<mounted, fieldIsFocused, search, hoveredIcon, showConfig,
                   showResetConfirm, debouncedValue, timers, pc>>
    /\ Render

\* lines 954-960: the Next button (disabled on the last page)
NextPage ==
    /\ Ready /\ fieldIsFocused /\ totalPages > 1
    /\ page # totalPages - 1
    /\ page' = nextPageUpdater(page, totalPages)
    /\ NoWrite
    /\ UNCHANGED <<mounted, fieldIsFocused, search, hoveredIcon, showConfig,
                   showResetConfirm, debouncedValue, timers, pc>>
    /\ Render

\* lines 861-862: pointer enters or leaves a button of the icon grid
MouseOver(n) ==
    /\ Ready /\ fieldIsFocused
    /\ GridShows(n)
    /\ hoveredIcon' = <<n>>
    /\ NoWrite
    /\ UNCHANGED <<mounted, fieldIsFocused, search, page, showConfig,
                   showResetConfirm, debouncedValue, timers, pc>>
    /\ Render

MouseOut ==
    /\ Ready /\ fieldIsFocused
    /\ paginatedIcons # <<>>
    /\ hoveredIcon # <<>>
    /\ hoveredIcon' = <<>>
    /\ NoWrite
    /\ UNCHANGED <<mounted, fieldIsFocused, search, page, showConfig,
                   showResetConfirm, debouncedValue, timers, pc>>
    /\ Render

\* lines 857-860 with 183-190: click on a button of the icon grid
SelectIcon(n) ==
    /\ Ready /\ fieldIsFocused
    /\ GridShows(n)
    /\ Write(handleIconSelect(value, n))
    /\ fieldIsFocused' = FALSE
    /\ SetSearchTo(<<>>)
    /\ UNCHANGED <<mounted, page, hoveredIcon, showConfig, showResetConfirm,
                   debouncedValue, pc>>
    /\ Render

\* (variant: the button also closes the picker)
ToggleConfig_ClosesPicker ==
    /\ Ready
    /\ showConfig' = ~showConfig
    /\ fieldIsFocused' = FALSE
    /\ NoWrite
    /\ UNCHANGED <<mounted, search, page, hoveredIcon,
                   showResetConfirm, debouncedValue, timers, pc>>
    /\ Render
\* lines 329-332: the "Configure icon" button
ToggleConfig ==
    /\ Ready
    /\ showConfig' = ~showConfig
    /\ NoWrite
    /\ UNCHANGED <<mounted, fieldIsFocused, search, page, hoveredIcon,
                   showResetConfirm, debouncedValue, timers, pc>>
    /\ Render

\* line 360: the close button of the configuration panel
CloseConfig ==
    /\ Ready /\ showConfig
    /\ showConfig' = FALSE
    /\ NoWrite
    /\ UNCHANGED <<mounted, fieldIsFocused, search, page, hoveredIcon,
                   showResetConfirm, debouncedValue, timers, pc>>
    /\ Render

\* the call sites of handleConfigChange in the configuration panel, as
\* <<field, newValue>>: lines 409, 419, 470, 493, 539, 549, 578
PanelInputs ==
    { <<"size", Num(n)>> : n \in SizeChoices }
      \cup { <<"size", parseInt(t)>> : t \in SizeTexts }
      \cup { <<"color", c>> : c \in ColorChoices \cup ColorTexts }
      \cup { <<"strokeWidth", Num(n)>> : n \in StrokeChoices }
      \cup { <<"strokeWidth", parseFloat(t)>> : t \in StrokeTexts }
\* ... and the checkbox, whose new state is the opposite of the shown one
ConfigInputs ==
    PanelInputs \cup { <<"absoluteStrokeWidth", ~value.absoluteStrokeWidth>> }

\* a control of the configuration panel changes one field
SetConfigField(field, newValue) ==
    /\ Ready /\ showConfig
    /\ Write(handleConfigChange(value, field, newValue))
    /\ UNCHANGED <<mounted, fieldIsFocused, search, page, hoveredIcon, showConfig,
                   showResetConfirm, debouncedValue, timers, pc>>
    /\ Render

\* line 591: "Restore Defaults" asks for confirmation
RequestReset ==
    /\ Ready /\ showConfig
    /\ showResetConfirm' = TRUE
    /\ NoWrite
    /\ UNCHANGED <<mounted, fieldIsFocused, search, page, hoveredIcon, showConfig,
                   debouncedValue, timers, pc>>
    /\ Render

\* (variant: cancelling writes the defaults as well)
CancelReset_AlsoResets ==
    /\ Ready /\ showResetConfirm
    /\ showResetConfirm' = FALSE
    /\ Write(handleResetToDefaults(value))
    /\ UNCHANGED <<mounted, fieldIsFocused, search, page, hoveredIcon, showConfig,
                   debouncedValue, timers, pc>>
    /\ Render
\* lines 661 and 716: the confirmation's close button and Cancel button
CancelReset ==
    /\ Ready /\ showResetConfirm
    /\ showResetConfirm' = FALSE
    /\ NoWrite
    /\ UNCHANGED <<mounted, fieldIsFocused, search, page, hoveredIcon, showConfig,
                   debouncedValue, timers, pc>>
    /\ Render

\* handleResetToDefaults, lines 225-231
ResetToDefaults ==
    /\ Write(handleResetToDefaults(value))
    /\ showResetConfirm' = FALSE
    /\ UNCHANGED <<mounted, fieldIsFocused, search, page, hoveredIcon, showConfig,
                   debouncedValue, timers, pc>>
    /\ Render

\* line 732: "Reset to Defaults" of the confirmation dialog
ConfirmReset ==
    /\ Ready /\ showResetConfirm
    /\ ResetToDefaults

\* line 611: "Reset to Defaults" of the configuration panel
PanelReset ==
    /\ Ready /\ showConfig
    /\ ResetToDefaults

\* lines 202-215: a mousedown reaches the document; handleClickOutside runs
PointerDown(target) ==
    /\ Ready /\ listeners > 0
    /\ target = "dialog" => fieldIsFocused
    /\ IF ClickOutsideCloses(target)
       THEN /\ fieldIsFocused' = FALSE
            /\ SetSearchTo(<<>>)
       ELSE UNCHANGED <<fieldIsFocused, search, timers>>
    /\ NoWrite
    /\ UNCHANGED <<mounted, page, hoveredIcon, showConfig, showResetConfirm,
                   debouncedValue, pc>>
    /\ Render

\* the cache is the only state an event of the component changes
CacheStep ==
    /\ setValueCalls' = <<>>
    /\ UNCHANGED <<mounted, hostValue, fieldIsFocused, search, page, hoveredIcon,
                   showConfig, showResetConfirm, debouncedValue, timers, pc,
                   listeners, inFlight, other, focus>>

\* lines 105-113: another IconSelectField of the page renders an Icon for n
OtherIconRender(n) ==
    /\ iconCache' = AfterIcons({n})
    /\ CountLoads(iconCache')
    /\ coldCache' = ColdAfterIcons({n})
    /\ CacheStep

\* lines 166-175: another IconSelectField of the page runs its preload effect
OtherPreload ==
    /\ iconCache' = AfterPreload(iconCache)
    /\ CountLoads(iconCache)
    /\ UNCHANGED coldCache
    /\ CacheStep

\* the entry of a name whose import completed
Resolved(entry) ==
    IF entry # <<>> /\ entry[1].load = "pending"
    THEN << [entry[1] EXCEPT !.load = "resolved"] >>
    ELSE entry

\* the import started by the cached component of n completes
LoadComplete(n) ==
    /\ iconCache[n] # <<>>
    /\ iconCache[n][1].load = "pending"
    /\ iconCache' = [iconCache EXCEPT ![n] = <<[@[1] EXCEPT !.load = "resolved"]>>]
    /\ coldCache' = [coldCache EXCEPT ![n] = Resolved(@)]
    /\ UNCHANGED loaderCalls
    /\ CacheStep

Next ==
    \/ Mount
    \/ Unmount
    \/ OpenPicker
    \/ CloseDialog
    \/ \E s \in SearchTexts : SetSearch(s)
    \/ TimerFire
    \/ ResetPageEffect
    \/ PrevPage
    \/ NextPage
    \/ \E n \in HoverNames : MouseOver(n)
    \/ MouseOut
    \/ \E n \in ClickNames : SelectIcon(n)
    \/ ToggleConfig
    \/ CloseConfig
    \/ \E in \in ConfigInputs : SetConfigField(in[1], in[2])
    \/ RequestReset
    \/ CancelReset
    \/ ConfirmReset
    \/ PanelReset
    \/ \E t \in Targets : PointerDown(t)

Spec == Init /\ [][Next]_vars

(***************************************************************************)
(* The page with other instances of the component and with imports that    *)
(* complete: the events that reach the cache.                              *)
(***************************************************************************)
\* a stored configuration whose name is not (or no longer) in the registry
GhostConfig ==
    [name |-> Ghost, size |-> Num(24), color |-> "currentColor",
     strokeWidth |-> Num(2), absoluteStrokeWidth |-> FALSE]

InitCache ==
    /\ mounted = FALSE
    /\ hostValue \in InitialHostValues \cup { <<GhostConfig>> }
    /\ setValueCalls = <<>>
    /\ fieldIsFocused = FALSE
    /\ search = <<>>
    /\ page = 0
    /\ hoveredIcon = <<>>
    /\ showConfig = FALSE
    /\ showResetConfirm = FALSE
    /\ debouncedValue = <<>>
    /\ timers = {}
    /\ pc = "idle"
    /\ iconCache = [n \in CacheNames |-> <<>>]
    /\ loaderCalls = [n \in CacheNames |-> 0]
    /\ listeners = 0
    /\ inFlight = <<>>
    /\ other = FreshInstance
    /\ focus = 1
    /\ coldCache = [n \in CacheNames |-> <<>>]

NextCache ==
    \/ Mount
    \/ Unmount
    \/ OpenPicker
    \/ CloseDialog
    \/ TimerFire
    \/ PrevPage
    \/ NextPage
    \/ \E n \in ClickNames : SelectIcon(n)
    \/ \E n \in CacheNames : OtherIconRender(n)
    \/ OtherPreload
    \/ \E n \in CacheNames : LoadComplete(n)

SpecCache == InitCache /\ [][NextCache]_vars

(***************************************************************************)
(* The search box under fair scheduling: a pending timer fires after its   *)
(* delay unless it is cleared, and the passive effects of a commit run.    *)
(***************************************************************************)
NextLive ==
    \/ Mount
    \/ Unmount
    \/ OpenPicker
    \/ CloseDialog
    \/ \E s \in SearchTexts : SetSearch(s)
    \/ TimerFire
    \/ ResetPageEffect
    \/ PrevPage
    \/ NextPage
    \/ \E n \in ClickNames : SelectIcon(n)

SpecLive ==
    /\ Init
    /\ [][NextLive]_vars
    /\ WF_vars(TimerFire)
    /\ WF_vars(ResetPageEffect)

(***************************************************************************)
(* A host that hands a written value back to the component some time after *)
(* setValue returned: until then useField returns the value of the last    *)
(* render, which is the `value` the handlers of lines 183-198 spread.      *)
(***************************************************************************)
\* the host takes the arguments `calls` and keeps its state for now
WriteLate(calls) ==
    /\ setValueCalls' = calls
    /\ hostValue' = hostValue
    /\ inFlight' = inFlight \o calls
    /\ Len(inFlight') <= MaxInFlight

\* a control of the configuration panel changes one field
SetConfigFieldLate(field, newValue) ==
    /\ Ready /\ showConfig
    /\ WriteLate(handleConfigChange(value, field, newValue))
    /\ UNCHANGED <<mounted, fieldIsFocused, search, page, hoveredIcon, showConfig,
                   showResetConfirm, debouncedValue, timers, pc>>
    /\ Render

\* click on a button of the icon grid
SelectIconLate(n) ==
    /\ Ready /\ fieldIsFocused
    /\ GridShows(n)
    /\ WriteLate(handleIconSelect(value, n))
    /\ fieldIsFocused' = FALSE
    /\ SetSearchTo(<<>>)
    /\ UNCHANGED <<mounted, page, hoveredIcon, showConfig, showResetConfirm,
                   debouncedValue, pc>>
    /\ Render

\* the host applies the oldest write it holds; the component re-renders with
\* the new value of useField
HostPropagates ==
    /\ mounted /\ inFlight # <<>>
    /\ hostValue' = setValue(hostValue, <<Head(inFlight)>>)
    /\ inFlight' = Tail(inFlight)
    /\ setValueCalls' = <<>>
    /\ UNCHANGED <<mounted, fieldIsFocused, search, page, hoveredIcon, showConfig,
                   showResetConfirm, debouncedValue, timers, pc>>
    /\ Render

\* the panel controls used with the late host
LateInputs ==
    { <<"size", Num(n)>> : n \in SizeChoices }
      \cup { <<"color", c>> : c \in ColorChoices }

NextHost ==
    \/ Mount
    \/ OpenPicker
    \/ ToggleConfig
    \/ \E in \in LateInputs : SetConfigFieldLate(in[1], in[2])
    \/ \E n \in ClickNames : SelectIconLate(n)
    \/ HostPropagates

SpecHost == Init /\ [][NextHost]_vars

(***************************************************************************)
(* Two instances on one page.  The variables hold the state of the         *)
(* instance `focus` and `other` holds the state of the second one; the     *)
(* events above are delivered to the instance `focus`.  Each instance has  *)
(* its own mousedown listener on document, so a mousedown runs the         *)
(* handleClickOutside of both, and document.querySelector (lines 204-205)  *)
(* looks at the elements of both.                                          *)
(***************************************************************************)
Instances == { 1, 2 }

\* the variables of this instance, as a record
ThisInstance ==
    [mounted |-> mounted, hostValue |-> hostValue, setValueCalls |-> setValueCalls,
     fieldIsFocused |-> fieldIsFocused, search |-> search, page |-> page,
     hoveredIcon |-> hoveredIcon, showConfig |-> showConfig,
     showResetConfirm |-> showResetConfirm, debouncedValue |-> debouncedValue,
     timers |-> timers, pc |-> pc, listeners |-> listeners, inFlight |-> inFlight]

\* the state of instance i
InstanceState(i) == IF i = focus THEN ThisInstance ELSE other

\* where a pointer can go down on the page of two instances: in the dialog
\* or on the collapsed control of an instance, or elsewhere
TargetsTwo == (Instances \X {"dialog", "control"}) \cup { <<0, "outside">> }

\* the target is on the page
TargetExists(t) ==
    \/ t[1] = 0
    \/ /\ InstanceState(t[1]).mounted
       /\ t[2] = "dialog" => InstanceState(t[1]).fieldIsFocused

\* instance i has an element with the class name
HasClass(i, cls) ==
    /\ InstanceState(i).mounted
    /\ cls \in ClassNamesOf(InstanceState(i).showConfig, InstanceState(i).fieldIsFocused)

\* document.querySelector('.' + cls): the instance whose element is the
\* first of the document with the class name, 0 when there is none (null)
querySelectorTwo(cls) ==
    IF HasClass(1, cls) THEN 1 ELSE IF HasClass(2, cls) THEN 2 ELSE 0

\* element.contains(target) for the element of instance i found by the class
\* name: the dialog for the modal class, the control for the field class
ElementContains(i, cls, t) ==
    /\ t[1] = i
    /\ \/ cls = "icon-picker-modal" /\ t[2] = "dialog"
       \/ cls = "icon-select-field" /\ t[2] = "control"

\* lines 203-211 in instance i: handleClickOutside closes its picker
ClickOutsideClosesTwo(i, t) ==
    /\ InstanceState(i).fieldIsFocused
    /\ querySelectorTwo("icon-picker-modal") # 0
    /\ querySelectorTwo("icon-select-field") # 0
    /\ ~ElementContains(querySelectorTwo("icon-picker-modal"), "icon-picker-modal", t)
    /\ ~ElementContains(querySelectorTwo("icon-select-field"), "icon-select-field", t)

\* the other instance after its handleClickOutside closed its picker:
\* setFieldIsFocused(false), setSearch(''), and the effects of its render
ClosedByClickOutside(st) ==
    [st EXCEPT !.fieldIsFocused = FALSE,
               !.search = <<>>,
               !.timers = DebounceEffect(st.timers, st.search, <<>>),
               !.listeners = ListenerEffect(st.listeners, st.fieldIsFocused, FALSE)]

\* a mousedown reaches the document: the handler of each instance that has a
\* listener runs
DocumentPointerDown(t) ==
    /\ Ready /\ listeners > 0
    /\ TargetExists(t)
    /\ IF ClickOutsideClosesTwo(focus, t)
       THEN /\ fieldIsFocused' = FALSE
            /\ SetSearchTo(<<>>)
       ELSE UNCHANGED <<fieldIsFocused, search, timers>>
    /\ other' = IF other.listeners > 0 /\ ClickOutsideClosesTwo(3 - focus, t)
                THEN ClosedByClickOutside(other)
                ELSE other
    /\ setValueCalls' = <<>>
    /\ UNCHANGED <<hostValue, inFlight, focus>>
    /\ UNCHANGED <<mounted, page, hoveredIcon, showConfig, showResetConfirm,
                   debouncedValue, pc>>
    /\ RenderThis

\* the next event goes to the other instance: no program state changes, the
\* variables hold the other instance from now on
SwitchInstance ==
    /\ pc = "idle"
    /\ other' = ThisInstance
    /\ focus' = 3 - focus
    /\ mounted' = other.mounted
    /\ hostValue' = other.hostValue
    /\ setValueCalls' = other.setValueCalls
    /\ fieldIsFocused' = other.fieldIsFocused
    /\ search' = other.search
    /\ page' = other.page
    /\ hoveredIcon' = other.hoveredIcon
    /\ showConfig' = other.showConfig
    /\ showResetConfirm' = other.showResetConfirm
    /\ debouncedValue' = other.debouncedValue
    /\ timers' = other.timers
    /\ pc' = other.pc
    /\ listeners' = other.listeners
    /\ inFlight' = other.inFlight
    /\ UNCHANGED <<iconCache, loaderCalls, coldCache>>

NextTwo ==
    \/ Mount
    \/ OpenPicker
    \/ CloseDialog
    \/ \E s \in SearchTexts : SetSearch(s)
    \/ NextPage
    \/ \E n \in HoverNames : MouseOver(n)
    \/ ToggleConfig
    \/ RequestReset
    \/ \E t \in TargetsTwo : DocumentPointerDown(t)
    \/ SwitchInstance

SpecTwo == Init /\ [][NextTwo]_vars

TypeOK ==
    /\ mounted \in BOOLEAN
    /\ Len(hostValue) <= 1
    /\ Len(setValueCalls) <= 1
    /\ fieldIsFocused \in BOOLEAN
    /\ search \in SearchTexts
    /\ debouncedValue \in SearchTexts
    /\ timers \subseteq SearchTexts
    /\ page \in Nat
    /\ Len(hoveredIcon) <= 1
    /\ showConfig \in BOOLEAN
    /\ showResetConfirm \in BOOLEAN
    /\ pc \in {"idle", "effect"}
    /\ DOMAIN iconCache = CacheNames
    /\ \A n \in CacheNames :
          /\ Len(iconCache[n]) <= 1
          /\ dynamicCalls(n) \in 0..MaxDynamicCalls
          /\ loaderCalls[n] \in Nat
    /\ listeners \in 0..MaxListeners
    /\ Len(inFlight) <= MaxInFlight
    /\ DOMAIN coldCache = CacheNames
    /\ DOMAIN other = DOMAIN FreshInstance
    /\ focus \in Instances

(***************************************************************************)
(* Properties.                                                             *)
(***************************************************************************)
\* some event handler of the three writers ran in this step
SelectIconStep == \E n \in ClickNames : SelectIcon(n)
SetConfigFieldStep == \E in \in ConfigInputs : SetConfigField(in[1], in[2])
ResetStep == ConfirmReset \/ PanelReset

\* C1: selectIcon(n) writes to the host a configuration whose name is n and
\* whose size, color, strokeWidth and absoluteStrokeWidth are those of the
\* effective configuration (the host value, or the default when absent).
C1_SelectIconReplacesOnlyName ==
    [][\A n \in ClickNames :
         SelectIcon(n) =>
           /\ hostValue' # <<>>
           /\ setValueCalls' = hostValue'
           /\ DOMAIN hostValue'[1] = Fields
           /\ hostValue'[1]["name"] = n
           /\ \A k \in Fields \ {"name"} : hostValue'[1][k] = value[k]]_vars

\* an icon was just selected (the picker closed on a write, panel closed)
\* on top of a configuration that is not the default one
C1_Witness ==
    /\ setValueCalls # <<>> /\ ~fieldIsFocused /\ ~showConfig /\ ~showResetConfirm
    /\ value.name = Ab
    /\ value.size = NaN /\ value.color = "#ef4444"
    /\ value.strokeWidth = NaN /\ value.absoluteStrokeWidth

\* the values setConfigField can be given for each key
FieldValues(k) ==
    IF k = "name" THEN ClickNames \cup {<<>>}
    ELSE IF k = "size" THEN {Num(n) : n \in SizeChoices} \cup {parseInt(t) : t \in SizeTexts}
    ELSE IF k = "color" THEN ColorChoices \cup ColorTexts
    ELSE IF k = "strokeWidth" THEN {Num(n) : n \in StrokeChoices} \cup {parseFloat(t) : t \in StrokeTexts}
    ELSE BOOLEAN

\* C2: setConfigField(k, v), for each of the five keys, writes a configuration
\* whose field k is v and whose other fields are those of the effective
\* configuration.  Stated of the handler on every reachable effective
\* configuration, and of every step a control of the panel takes.
C2_SetConfigFieldReplacesOneField ==
    /\ [](\A k \in Fields : \A v \in FieldValues(k) :
            LET calls == handleConfigChange(value, k, v)
            IN  /\ Len(calls) = 1
                /\ DOMAIN calls[1] = Fields
                /\ calls[1][k] = v
                /\ \A j \in Fields \ {k} : calls[1][j] = value[j])
    /\ [][\A in \in ConfigInputs :
            SetConfigField(in[1], in[2]) =>
              /\ hostValue' # <<>>
              /\ setValueCalls' = hostValue'
              /\ hostValue'[1][in[1]] = in[2]
              /\ \A j \in Fields \ {in[1]} : hostValue'[1][j] = value[j]]_vars

\* a panel control just wrote (picker still open, so it was not a selection;
\* the values are not the defaults, so it was not a reset)
C2_Witness ==
    /\ setValueCalls # <<>> /\ fieldIsFocused /\ showConfig
    /\ value.name = Home
    /\ value.size = NaN /\ value.color = "#ef4444"
    /\ value.strokeWidth = NaN /\ ~value.absoluteStrokeWidth

\* C3: resetToDefaults() writes the configuration with the current name,
\* size 24, color "currentColor", strokeWidth 2, absoluteStrokeWidth false.
C3_ResetKeepsNameRestoresDefaults ==
    [][ResetStep =>
         /\ setValueCalls' = hostValue'
         /\ hostValue' = << [name |-> value.name, size |-> Num(24),
                             color |-> "currentColor", strokeWidth |-> Num(2),
                             absoluteStrokeWidth |-> FALSE] >>]_vars

\* a reset was just confirmed (picker open: not a selection; panel closed:
\* not a panel control) for a configuration with a selected icon
C3_Witness ==
    /\ setValueCalls # <<>> /\ fieldIsFocused /\ ~showConfig /\ ~showResetConfirm
    /\ value = [name |-> Ab, size |-> Num(24), color |-> "currentColor",
                 strokeWidth |-> Num(2), absoluteStrokeWidth |-> FALSE]

\* C4: every value passed to the host setter, and so every value the host
\* holds, has all five fields; a partial configuration is never persisted.
C4_WritesAreComplete ==
    /\ \A i \in 1..Len(setValueCalls) : Fields \subseteq DOMAIN setValueCalls[i]
    /\ \A i \in 1..Len(hostValue) : Fields \subseteq DOMAIN hostValue[i]

\* a write was just made that carries the marks of all three writers: a
\* selected name, a panel-entered NaN and otherwise default values
C4_Witness ==
    /\ setValueCalls # <<>> /\ setValueCalls = hostValue
    /\ value.name = Ab /\ value.size = Num(24) /\ value.strokeWidth = NaN
    /\ value.color = "currentColor" /\ ~value.absoluteStrokeWidth

\* C5: each selectIcon, setConfigField and resetToDefaults step calls the
\* host setter exactly once; every other step (mount, open, close, typing,
\* timer, page reset, navigation, hover, panel toggle, reset request or
\* cancel, unmount) calls it not at all and leaves the host value unchanged.
C5_SetterCalledOnceByWritersOnly ==
    [][LET writer == SelectIconStep \/ SetConfigFieldStep \/ ResetStep
       IN  /\ writer => Len(setValueCalls') = 1
           /\ ~writer => (setValueCalls' = <<>> /\ hostValue' = hostValue)
           /\ (Mount \/ TimerFire \/ ResetPageEffect) =>
                 (setValueCalls' = <<>> /\ hostValue' = hostValue)]_vars

\* mounted on an absent host value and used in every non-writing way: the
\* host value is still absent
C5_Witness ==
    /\ mounted /\ hostValue = <<>> /\ setValueCalls = <<>>
    /\ fieldIsFocused /\ showConfig /\ showResetConfirm
    /\ debouncedValue = <<"A","b">> /\ search = <<"h">> /\ page = 1
    /\ hoveredIcon = <<Ab>>

\* position of each catalog entry in the catalog
CatalogIndex == [n \in Range(allIcons) |-> IndexIn(allIcons, n)]

\* the list f is the case-insensitive substring filter of the catalog by s:
\* exactly the matching names, each once, in catalog order
IsFilterOf(f, s) ==
    /\ \A i \in 1..Len(allIcons) :
          (\E j \in 1..Len(f) : f[j] = allIcons[i])
             <=> includes(toLowerCase(allIcons[i]), toLowerCase(s))
    /\ \A j \in 1..Len(f) : f[j] \in Range(allIcons)
    /\ \A j \in 1..(Len(f) - 1) : CatalogIndex[f[j]] < CatalogIndex[f[j + 1]]
    /\ s = <<>> => f = allIcons

\* the filter of every search text the model types, checked against IsFilterOf
FilterChecked == [s \in SearchTexts |-> IsFilterOf(FilterIcons(allIcons, s), s)]

\* C6: a catalog name is in the filtered list iff its lower-cased form
\* contains the lower-cased debounced search text; the filtered list keeps
\* the catalog's order and is the whole catalog for the empty text.
C6_FilterIsCaseInsensitiveSubstring ==
    /\ filteredIcons = filteredIconsMemo[debouncedValue]
    /\ FilterChecked[debouncedValue]

\* a mixed-case search text is applied and keeps some names, not all
C6_Witness ==
    /\ fieldIsFocused /\ pc = "idle"
    /\ debouncedValue = <<"A","b">>
    /\ Len(filteredIcons) > 0 /\ Len(filteredIcons) < Len(allIcons)
    /\ GridShows(Ab)

\* the least k with k * d >= n
CeilOf(n, d) == CHOOSE k \in 0..n : k * d >= n /\ (k = 0 \/ (k - 1) * d < n)

RECURSIVE ConcatPages(_, _, _)
\* the page slices of f for pages from..(count - 1), concatenated
ConcatPages(f, from, count) ==
    IF from >= count THEN <<>>
    ELSE PaginatedOf(f, from) \o ConcatPages(f, from + 1, count)

\* the pages of f partition f in order, full except possibly the last
IsPaginationOf(f) ==
    LET pageCount == TotalPagesOf(f)
    IN  /\ pageCount = CeilOf(Len(f), 60)
        /\ ConcatPages(f, 0, pageCount) = f
        /\ \A p \in 0..(pageCount - 1) :
              /\ Len(PaginatedOf(f, p)) <= 60
              /\ Len(PaginatedOf(f, p)) >= 1
              /\ p < pageCount - 1 => Len(PaginatedOf(f, p)) = 60

\* the pagination of every filtered list of the model, checked
PaginationChecked == [s \in SearchTexts |-> IsPaginationOf(FilterIcons(allIcons, s))]

\* C7: the page slices for page 0 .. pageCount-1, concatenated in order, are
\* the filtered list, with pageCount = ceil(filteredCount / 60); every page
\* has at most 60 entries and only the last may have fewer.
C7_PagesPartitionFilteredList ==
    /\ PaginationChecked[debouncedValue]
    /\ (pc = "idle" /\ page < totalPages) =>
          paginatedIcons = SubSeq(filteredIcons, page * 60 + 1,
                                  Min((page + 1) * 60, Len(filteredIcons)))

\* the last page of a two-page list is shown and is shorter than 60
C7_Witness ==
    /\ fieldIsFocused /\ pc = "idle"
    /\ totalPages = 2 /\ page = 1
    /\ Len(paginatedIcons) > 0 /\ Len(paginatedIcons) < 60

\* C8: when the debounced search text changes to a different value, the
\* reset-page effect becomes pending, and once it has been processed the
\* page index is 0, whatever it was before.
C8_DebouncedChangeResetsPage ==
    [][/\ (mounted /\ mounted' /\ debouncedValue' # debouncedValue) => pc' = "effect"
       /\ (pc = "effect" /\ mounted') => (pc' = "idle" /\ page' = 0)]_vars

\* the debounced text has just changed while the third page was shown: the
\* user navigated between typing and the timer firing
C8_Witness ==
    /\ pc = "effect" /\ page = 2
    /\ debouncedValue = <<"A","b">> /\ search = debouncedValue

\* C9: a Previous or Next step leaves the page index within
\* [0, pageCount-1]; the Previous updater at page 0 and the Next updater at
\* page pageCount-1 return the page unchanged.
C9_NavigationStaysInRange ==
    /\ [][(PrevPage \/ NextPage) =>
            (page' >= 0 /\ page' <= CeilOf(Len(filteredIcons'), 60) - 1)]_vars
    /\ [](prevPageUpdater(0) = 0)
    /\ []((totalPages >= 1) =>
             (nextPageUpdater(totalPages - 1, totalPages) = totalPages - 1))
    /\ []((pc = "idle" /\ totalPages >= 1) =>
             (prevPageUpdater(page) \in 0..(totalPages - 1)
                /\ nextPageUpdater(page, totalPages) \in 0..(totalPages - 1)))

\* the last of three pages is shown: Next would have to be clamped
C9_Witness ==
    /\ fieldIsFocused /\ pc = "idle"
    /\ totalPages = 3 /\ page = totalPages - 1

\* C10: at most one debounce timer is pending, and it is the one scheduled
\* for the current search text; the debounced text changes only by that
\* timer firing, so it only ever takes the current search text.
C10_OnlyLatestTimerFires ==
    /\ [](Cardinality(timers) <= 1)
    /\ []((timers # {}) => (mounted /\ timers = {search}))
    /\ [][(mounted' /\ debouncedValue' # debouncedValue) =>
            (search \in timers /\ debouncedValue' = search
               /\ search' = search /\ timers' = timers \ {search})]_vars

\* the text was changed again after an earlier text had been applied: the
\* only pending timer is the one of the latest text
C10_Witness ==
    /\ mounted /\ pc = "idle"
    /\ debouncedValue = <<"h">> /\ search = <<"A","b">>
    /\ timers = {search}

\* C11: for every name, however the Icon renders of this instance, those of
\* other instances, the preload effects and the completions of imports
\* interleave, at most one component is ever made for the name (so every
\* requester is handed that one component) and its import function is
\* invoked at most once.
C11_OneHandleOneLoadPerName ==
    \A n \in CacheNames :
       /\ dynamicCalls(n) <= 1
       /\ loaderCalls[n] <= 1
       /\ iconCache[n] # <<>> => iconCache[n][1].id = 1

\* this instance shows the dialog: "x" was preloaded and is now rendered
\* while its import is in flight, "ab" is rendered after its import
\* completed, and "ghost", which this instance never had, was requested by
\* another one
C11_Witness ==
    /\ mounted /\ fieldIsFocused /\ page = 0 /\ value.name = Home
    /\ iconCache[X] # <<>> /\ iconCache[X][1].load = "pending" /\ loaderCalls[X] = 1
    /\ iconCache[Ab] # <<>> /\ iconCache[Ab][1].load = "resolved" /\ loaderCalls[Ab] = 1
    /\ iconCache[Ghost] # <<>>

\* C12: the cache only grows: once it has an entry for a name, every later
\* step (render, selection, preload, mount, unmount, another instance's
\* render or preload, a completed import) leaves the same component there.
C12_CacheOnlyGrows ==
    [][\A n \in CacheNames :
         iconCache[n] # <<>> =>
           (iconCache'[n] # <<>> /\ iconCache'[n][1].id = iconCache[n][1].id)]_vars

\* the instance was unmounted after an icon was selected: the entries made
\* by its renders and by the preload are all still there
C12_Witness ==
    /\ ~mounted /\ value.name = Ab
    /\ iconCache[Settings] # <<>> /\ iconCache[X] # <<>> /\ iconCache[Ab] # <<>>
    /\ iconCache[X][1].load = "resolved"

\* the state of the component and of the host, without the record of the
\* setter calls of the latest event
programState == <<mounted, hostValue, fieldIsFocused, search, page, hoveredIcon,
                  showConfig, showResetConfirm, debouncedValue, timers, pc,
                  iconCache, loaderCalls, listeners, inFlight, coldCache>>

\* C13: a pointer-down outside both the dialog and the collapsed control
\* closes an open picker and empties the search text; on a closed picker it
\* changes no state.
C13_OutsidePointerDownCloses ==
    [][PointerDown("outside") =>
         IF fieldIsFocused
         THEN ~fieldIsFocused' /\ search' = <<>>
         ELSE programState' = programState]_vars

\* C14: the defaults are written only while the reset confirmation is
\* pending: every resetToDefaults step starts in a state where the reset
\* was requested and not yet answered.
C14_ResetOnlyWhilePending ==
    [][ResetStep => showResetConfirm]_vars

\* C15: when the stored name is not a key of the registry (the empty name
\* or any other), the collapsed control of the mounted instance shows the
\* placeholder and the render has no Icon for the name, so its resolution is
\* never requested.
C15_UnregisteredNameShowsPlaceholder ==
    (mounted /\ ~IsIn(dynamicIconImports, value.name)) =>
       (~ControlRendersIcon /\ value.name \notin RenderedIcons)

\* C16: every step that takes the picker from open to closed leaves the
\* search text empty, and every icon selection leaves the picker closed.
C16_ClosingClearsSearch ==
    [][/\ (fieldIsFocused /\ ~fieldIsFocused') => search' = <<>>
       /\ \A n \in ClickNames : SelectIcon(n) => (~fieldIsFocused' /\ search' = <<>>)]_vars

\* an icon was just selected in a filtered grid: the picker is closed and
\* the search text is empty while the debounced text is still the typed one
C16_Witness ==
    /\ mounted /\ ~fieldIsFocused /\ setValueCalls # <<>> /\ ~showConfig
    /\ value.name = Home
    /\ search = <<>> /\ debouncedValue = <<"h">> /\ timers = {<<>>}

\* C17: the instance has a mousedown listener on the document only while
\* its picker is open, and never more than one.
C17_ListenerOnlyWhileOpen ==
    /\ ~fieldIsFocused => listeners = 0
    /\ listeners <= 1

\* C18: every step that takes the picker from open to closed leaves the page
\* index at 0, so the picker never opens on a page other than the first.
C18_ClosingResetsPage ==
    [][/\ (fieldIsFocused /\ ~fieldIsFocused') => page' = 0
       /\ (~fieldIsFocused /\ fieldIsFocused') => page' = 0]_vars

\* C19: Cancel and the close button of the confirmation clear the pending
\* flag, call the host setter not at all and leave everything else as it
\* was; the confirmation's "Reset to Defaults" calls the setter exactly once,
\* with the defaults under the current name, and clears the flag.
C19_CancelAndConfirm ==
    [][/\ CancelReset =>
            /\ showResetConfirm /\ ~showResetConfirm'
            /\ setValueCalls' = <<>>
            /\ UNCHANGED <<mounted, hostValue, fieldIsFocused, search, page,
                           hoveredIcon, showConfig, debouncedValue, timers, pc,
                           iconCache, loaderCalls, listeners, inFlight, coldCache>>
       /\ ConfirmReset =>
            /\ showResetConfirm /\ ~showResetConfirm'
            /\ Len(setValueCalls') = 1
            /\ setValueCalls'[1] = Spread(DEFAULT_ICON_CONFIG, [name |-> value.name])
            /\ hostValue' = setValueCalls']_vars

\* the reset was just confirmed with the panel closed and the picker open
\* (so the write is not one of a panel control or of a selection): the
\* stored configuration has the defaults under the stored name
C19_Witness ==
    /\ setValueCalls # <<>> /\ fieldIsFocused /\ ~showConfig /\ ~showResetConfirm
    /\ value = [name |-> Home, size |-> Num(24), color |-> "currentColor",
                 strokeWidth |-> Num(2), absoluteStrokeWidth |-> FALSE]

\* C20: a step that changes the panel flag of the mounted instance leaves
\* the picker flag, the search text and the page index unchanged, and a step
\* that changes the picker flag leaves the panel flag unchanged.
C20_PanelAndPickerIndependent ==
    [][/\ (mounted' /\ showConfig' # showConfig) =>
             UNCHANGED <<fieldIsFocused, search, page>>
       /\ (mounted' /\ fieldIsFocused' # fieldIsFocused) =>
             showConfig' = showConfig
       /\ (ToggleConfig \/ CloseConfig) => UNCHANGED <<fieldIsFocused, search, page>>
       /\ (OpenPicker \/ CloseDialog) => showConfig' = showConfig]_vars

\* the picker and the panel are open together, on a page other than the
\* first and with a search text typed
C20_Witness ==
    /\ mounted /\ fieldIsFocused /\ showConfig
    /\ page = 1 /\ search = <<"A","b">>

\* texts a number input can deliver: nothing parseable, or a number outside
\* [min, max] of either input
NumericTexts == { <<>>, <<"-">>, <<"0">>, <<"-","5">>, <<"5","0","0">>, <<"2">> }

\* the one call that writes `parsed` into `field` of v and nothing else
WritesOnly(calls, v, field, parsed) ==
    /\ Len(calls) = 1
    /\ DOMAIN calls[1] = Fields
    /\ calls[1][field] = parsed
    /\ \A j \in Fields \ {field} : calls[1][j] = v[j]

\* C23: text of the size or stroke-width input that has no number in it, or
\* a number out of range, is not rejected: the setter is called once with
\* the parse result (NaN for text without a number) in that field and the
\* other fields as they were, and the component goes on handling events.
C23_MalformedNumbersPersisted ==
    /\ [](parseInt(<<>>) = NaN /\ parseInt(<<"-">>) = NaN)
    /\ [](parseFloat(<<>>) = NaN /\ parseFloat(<<"-">>) = NaN)
    /\ [](parseInt(<<"5","0","0">>) = Num(500) /\ parseFloat(<<"-","5">>) = Num(0 - 5))
    /\ [](\A t \in NumericTexts :
            /\ WritesOnly(handleConfigChange(value, "size", parseInt(t)),
                          value, "size", parseInt(t))
            /\ WritesOnly(handleConfigChange(value, "strokeWidth", parseFloat(t)),
                          value, "strokeWidth", parseFloat(t)))
    /\ [][/\ \A t \in SizeTexts :
               SetConfigField("size", parseInt(t)) =>
                  /\ WritesOnly(setValueCalls', value, "size", parseInt(t))
                  /\ hostValue' = setValueCalls'
                  /\ mounted' /\ pc' = "idle" /\ showConfig'
          /\ \A t \in StrokeTexts :
               SetConfigField("strokeWidth", parseFloat(t)) =>
                  /\ WritesOnly(setValueCalls', value, "strokeWidth", parseFloat(t))
                  /\ hostValue' = setValueCalls'
                  /\ mounted' /\ pc' = "idle" /\ showConfig']_vars

\* on a host without a stored value, a size above the maximum and an empty
\* stroke width were typed: both are persisted as parsed
C23_Witness ==
    /\ mounted /\ showConfig /\ pc = "idle" /\ setValueCalls # <<>>
    /\ value.name = <<>> /\ value.color = "currentColor"
    /\ value.size = Num(500) /\ value.strokeWidth = NaN

\* C25: in every state of the mounted instance, the one between a change
\* of the debounced text and the page reset included, the page index is at
\* least 0 and, when the filtered list is not empty, less than the page
\* count, and the rendered page of a non-empty filtered list is not empty.
C25_PageAlwaysInRange ==
    mounted =>
       /\ page >= 0
       /\ filteredIcons # <<>> => (page < totalPages /\ paginatedIcons # <<>>)

\* C24: when the search text stops changing, the debounced text eventually
\* equals it and stays so, and the filtered list is then the filter of the
\* catalog by the search text; so once the picker is closed (which empties
\* the search text) the debounced text becomes empty and the whole catalog
\* is back, unless a new text is typed first.
C24_DebouncedTextCatchesUp ==
    /\ \A s \in SearchTexts :
          <>[](search = s) =>
             <>[](debouncedValue = s /\ filteredIcons = filteredIconsMemo[s])
    /\ (mounted /\ ~fieldIsFocused) ~>
          ((debouncedValue = <<>> /\ filteredIcons = allIcons) \/ search # <<>>)

\* a mixed-case text was typed and left alone: no timer is pending and the
\* filtered list is the one of the typed text
C24_Witness ==
    /\ mounted /\ fieldIsFocused /\ pc = "idle" /\ timers = {}
    /\ search = <<"A","b">> /\ debouncedValue = search /\ page = 0
    /\ Len(filteredIcons) < Len(allIcons)

\* the configuration w with the field k set to v
WithField(w, k, v) == [j \in Fields |-> IF j = k THEN v ELSE w[j]]

\* C26: two writers run one after the other on different fields (a panel
\* control after a write that left its field alone, or an icon click after a
\* write that left the name alone): the configuration the host persists
\* last, which is the argument of the second setValue call, has both
\* changes, also when the host has not handed the first write back yet.
C26_BothChangesPersist ==
    [][/\ \A in \in LateInputs :
            ( /\ Len(inFlight) = 1
              /\ inFlight[1][in[1]] = value[in[1]]
              /\ SetConfigFieldLate(in[1], in[2]) )
            => inFlight'[2] = WithField(inFlight[1], in[1], in[2])
       /\ \A n \in ClickNames :
            ( /\ Len(inFlight) = 1
              /\ inFlight[1]["name"] = value["name"]
              /\ SelectIconLate(n) )
            => inFlight'[2] = WithField(inFlight[1], "name", n)]_vars

\* C22: the run with the preload effect and the run without it, on the same
\* events: every name that was rendered has the same entry in both caches
\* (the same handle, loading or loaded alike), so every Icon on screen shows
\* the same handle; the entries only the preloading run has are idle entries
\* of registered names of the preload list; what the preload effect changes
\* in a step is the cache and nothing else.
C22_PreloadOnlyAddsEntries ==
    /\ [](\A n \in CacheNames :
            /\ coldCache[n] # <<>> => iconCache[n] = coldCache[n]
            /\ n \in RenderedIcons => coldCache[n] # <<>>
            /\ (coldCache[n] = <<>> /\ iconCache[n] # <<>>) =>
                  /\ n \in preloadNames
                  /\ registered[n]
                  /\ iconCache[n][1] = dynamic(1))
    /\ [][OtherPreload => UNCHANGED <<mounted, hostValue, fieldIsFocused, search,
                                      page, hoveredIcon, showConfig,
                                      showResetConfirm, debouncedValue, timers,
                                      pc, loaderCalls, listeners>>]_vars

\* an entry made by the preload effect alone, next to rendered ones that
\* both runs have: one of the preload list and one that is not on it
C22_Witness ==
    /\ mounted
    /\ coldCache[X] = <<>> /\ iconCache[X] # <<>>
    /\ coldCache[Settings] # <<>> /\ iconCache[Settings] = coldCache[Settings]
    /\ coldCache[Ab] # <<>> /\ iconCache[Ab] = coldCache[Ab]

\* picker open, panel open, reset pending, search text, page, hovered icon
Transient(st) ==
    <<st.fieldIsFocused, st.showConfig, st.showResetConfirm, st.search, st.page,
      st.hoveredIcon>>

\* C21 reads the primed state of instance i
TransientAfter(i) ==
    IF i = focus' THEN <<fieldIsFocused', showConfig', showResetConfirm', search',
                         page', hoveredIcon'>>
    ELSE Transient(other')

\* handleClickOutside of instance i closes, going by the elements of
\* instance i alone
ClosesByOwnElements(i, t) ==
    /\ InstanceState(i).fieldIsFocused
    /\ HasClass(i, "icon-picker-modal")
    /\ HasClass(i, "icon-select-field")
    /\ ~ElementContains(i, "icon-picker-modal", t)
    /\ ~ElementContains(i, "icon-select-field", t)

\* C21: with two instances on the page, whatever the pointer goes down on,
\* the handler of an instance decides as it would with the elements of its
\* own instance alone; and the transient state of an instance changes only
\* in a step of an event delivered to it, or becomes that of its closed
\* picker through a mousedown its own elements place outside.  The variables
\* the two instances share are those of the cache.
C21_TransientStatePerInstance ==
    /\ [](\A t \in TargetsTwo : \A i \in Instances :
             TargetExists(t) =>
                (ClickOutsideClosesTwo(i, t) <=> ClosesByOwnElements(i, t)))
    /\ [][\A i \in Instances :
            \/ TransientAfter(i) = Transient(InstanceState(i))
            \/ focus = i /\ focus' = i
            \/ \E t \in TargetsTwo :
                  /\ TargetExists(t)
                  /\ ClosesByOwnElements(i, t)
                  /\ TransientAfter(i) =
                        Transient(ClosedByClickOutside(InstanceState(i)))]_vars

\* both instances are mounted with their listeners on the document, and
\* their transient state differs in every part
C21_Witness ==
    /\ mounted /\ other.mounted
    /\ listeners > 0 /\ other.listeners > 0
    /\ fieldIsFocused /\ ~other.fieldIsFocused
    /\ ~showConfig /\ other.showConfig /\ other.showResetConfirm
    /\ search # other.search
    /\ page # other.page
    /\ hoveredIcon # other.hoveredIcon

====
